---- MODULE Spec2Model ----
(***************************************************************************)
(* A model of server.js: the six source adapters (search and              *)
(* fetch-popular), the fan-out handlers /api/search, /api/search/:site    *)
(* and /api/popular, the popular-results cache, the image proxy with its  *)
(* cache, /api/search-urls and /api/health.                               *)
(*                                                                         *)
(* Time is in milliseconds, as Date.now() gives it.  A query value is     *)
(* either absent or a string; a string that the code parses (limit, page) *)
(* is a sequence of one-character strings, the `sites` value is given by  *)
(* the list its split(',') yields, and a URL is a sequence of tokens.     *)
(***************************************************************************)
EXTENDS Integers, Sequences, FiniteSets, TLC

(***************************************************************************)
(* Bounds of the model.                                                    *)
(***************************************************************************)
\* requests received in one behaviour
MaxStarted == 3
\* requests in flight together in the concurrent specifications
MaxInFlight == 2
\* minutes the clock runs in the specifications of /api/popular
PopularHorizon == 6
\* minutes the clock runs in the specifications of /api/image
ImageHorizon == 30
\* minutes the clock runs in the specification of the outbound calls
CallHorizon == 1
\* minutes of time in the runs of the full image cache
SweepHorizon == 45

(***************************************************************************)
(* Program constants.                                                      *)
(***************************************************************************)
MS_PER_MINUTE == 60 * 1000
POPULAR_TTL == 5 * MS_PER_MINUTE
IMAGE_CACHE_TTL == 30 * MS_PER_MINUTE
ABORT_MS == 20 * 1000
IMAGE_CACHE_MAX == 100
DEFAULT_LIMIT == 10
MAX_LIMIT == 20
DEFAULT_PAGE == 1
FALLBACK_COUNT == 10

Min(a, b) == IF a <= b THEN a ELSE b
Max(a, b) == IF a >= b THEN a ELSE b

(***************************************************************************)
(* Query values.                                                           *)
(***************************************************************************)
Absent == [kind |-> "absent", text |-> <<>>]
Str(chars) == [kind |-> "string", text |-> chars]
\* a parameter given more than once: the framework delivers an array
Arr(values) == [kind |-> "array", text |-> values]

\* String(10), String(1): the text of a destructuring default
DefaultLimitText == <<"1", "0">>
DefaultPageText == <<"1">>

\* const { limit = 10 } = req.query: the default replaces an absent value only
WithDefault(param, defaultText) ==
    IF param.kind = "absent" THEN defaultText ELSE param.text

(***************************************************************************)
(* parseInt(string), radix undefined: leading white space is skipped, one *)
(* sign is read, a 0x or 0X prefix selects radix 16, and the longest      *)
(* prefix of digits of the radix is the value; no digit gives NaN.        *)
(***************************************************************************)
DigitValue ==
    ("0" :> 0) @@ ("1" :> 1) @@ ("2" :> 2) @@ ("3" :> 3) @@ ("4" :> 4) @@
    ("5" :> 5) @@ ("6" :> 6) @@ ("7" :> 7) @@ ("8" :> 8) @@ ("9" :> 9) @@
    ("a" :> 10) @@ ("b" :> 11) @@ ("c" :> 12) @@ ("d" :> 13) @@ ("e" :> 14) @@
    ("f" :> 15)

IsDigit(c, radix) == c \in DOMAIN DigitValue /\ DigitValue[c] < radix

RECURSIVE SkipSpace(_)
SkipSpace(s) ==
    IF s # <<>> /\ Head(s) = " " THEN SkipSpace(Tail(s)) ELSE s

RECURSIVE DigitPrefix(_, _)
DigitPrefix(s, radix) ==
    IF s # <<>> /\ IsDigit(Head(s), radix)
    THEN <<Head(s)>> \o DigitPrefix(Tail(s), radix)
    ELSE <<>>

RECURSIVE DigitsValue(_, _, _)
DigitsValue(s, radix, acc) ==
    IF s = <<>> THEN acc
    ELSE DigitsValue(Tail(s), radix, acc * radix + DigitValue[Head(s)])

NaN == [nan |-> TRUE, value |-> 0]
Num(n) == [nan |-> FALSE, value |-> n]

ParseInt(text) ==
    LET s1 == SkipSpace(text)
        neg == s1 # <<>> /\ Head(s1) = "-"
        s2 == IF s1 # <<>> /\ Head(s1) \in {"-", "+"} THEN Tail(s1) ELSE s1
        hex == Len(s2) >= 2 /\ s2[1] = "0" /\ s2[2] \in {"x", "X"}
        radix == IF hex THEN 16 ELSE 10
        s3 == IF hex THEN Tail(Tail(s2)) ELSE s2
        ds == DigitPrefix(s3, radix)
        v == DigitsValue(ds, radix, 0)
    IN  IF ds = <<>> THEN NaN ELSE Num(IF neg THEN 0 - v ELSE v)

\* parseInt(x) || d: NaN and 0 are falsy
OrDefault(p, d) == IF p.nan \/ p.value = 0 THEN d ELSE p.value

\* Math.min(parseInt(limit) || 10, 20)
SearchLimit(limit) ==
    Min(OrDefault(ParseInt(WithDefault(limit, DefaultLimitText)), DEFAULT_LIMIT),
        MAX_LIMIT)

\* a variant of SearchPage without the floor of 1
SearchPageNoFloor(page) ==
    OrDefault(ParseInt(WithDefault(page, DefaultPageText)), DEFAULT_PAGE)

\* Math.max(parseInt(page) || 1, 1)
SearchPage(page) ==
    Max(OrDefault(ParseInt(WithDefault(page, DefaultPageText)), DEFAULT_PAGE), 1)

(***************************************************************************)
(* Site ids and the handler's tables of adapters.                          *)
(***************************************************************************)
\* the default of `sites`, which is also the key list of both tables
DefaultSites ==
    <<"thingiverse", "printables", "thangs", "youmagine", "myminifactory",
      "crealitycloud">>

\* own keys of searchFunctions and of fetchFunctions
KnownSites == {DefaultSites[i] : i \in 1..Len(DefaultSites)}

\* what an object literal inherits from Object.prototype: functions, and the
\* __proto__ accessor, whose value is Object.prototype itself
ObjectPrototypeFunctions ==
    {"constructor", "toString", "toLocaleString", "valueOf", "hasOwnProperty",
     "isPrototypeOf", "propertyIsEnumerable", "__defineGetter__",
     "__defineSetter__", "__lookupGetter__", "__lookupSetter__"}

\* searchFunctions[site], fetchFunctions[site]: a property read of an object
\* literal, which also finds inherited properties
Lookup(site) ==
    IF site \in KnownSites THEN "adapter"
    ELSE IF site \in ObjectPrototypeFunctions THEN "function"
    ELSE IF site = "__proto__" THEN "object"
    ELSE "undefined"

\* .filter(site => searchFunctions[site]): every truthy property passes
Truthy(site) == Lookup(site) # "undefined"

RECURSIVE FilterSites(_)
FilterSites(sites) ==
    IF sites = <<>> THEN <<>>
    ELSE IF Truthy(Head(sites))
         THEN <<Head(sites)>> \o FilterSites(Tail(sites))
         ELSE FilterSites(Tail(sites))

\* siteParam ? siteParam.split(',') : [the six]; the empty string is falsy
EnabledSites(sites) ==
    IF sites.kind = "absent" \/ sites.text = <<"">> THEN DefaultSites
    ELSE sites.text

\* the order of Array.prototype.sort() without a comparator (UTF-16 code
\* units) on the site ids of the model
SiteRank ==
    ("" :> 0) @@ ("__proto__" :> 1) @@ ("constructor" :> 2) @@
    ("crealitycloud" :> 3) @@ ("foo" :> 4) @@ ("myminifactory" :> 5) @@
    ("printables" :> 6) @@ ("thangs" :> 7) @@ ("thingiverse" :> 8) @@
    ("thingiverse-" :> 9) @@ ("toString" :> 10) @@ ("youmagine" :> 11)

RECURSIVE Insert(_, _)
Insert(x, sorted) ==
    IF sorted = <<>> THEN <<x>>
    ELSE IF SiteRank[x] < SiteRank[Head(sorted)] THEN <<x>> \o sorted
    ELSE <<Head(sorted)>> \o Insert(x, Tail(sorted))

RECURSIVE Sort(_)
Sort(s) == IF s = <<>> THEN <<>> ELSE Insert(Head(s), Sort(Tail(s)))

RECURSIVE Join(_)
Join(s) ==
    IF s = <<>> THEN ""
    ELSE IF Len(s) = 1 THEN Head(s)
    ELSE Head(s) \o "," \o Join(Tail(s))

\* `${enabledSites.sort().join(',')}-${searchLimit}`
CacheKey(enabledSites, searchLimit) ==
    Join(Sort(enabledSites)) \o "-" \o ToString(searchLimit)

(***************************************************************************)
(* Records and the results of adapters.  A record is tagged with its      *)
(* source and the upstream item it was made from; a curated fallback      *)
(* record has item 100 + its place in the list.                           *)
(***************************************************************************)
Rec(site, i) == [source |-> site, item |-> i]

MapItems(site, items) == [k \in 1..Len(items) |-> Rec(site, items[k])]

\* array.slice(0, n): a negative n counts from the end
Slice(s, n) ==
    LET end == IF n >= 0 THEN Min(n, Len(s)) ELSE Max(Len(s) + n, 0)
    IN  SubSeq(s, 1, end)

\* $(...).each: `if (results.length >= limit) return false` before each push
ScrapeTake(s, limit) == IF limit <= 0 THEN <<>> ELSE SubSeq(s, 1, Min(limit, Len(s)))

\* fallbackPopularModels[site]
Fallback(site) == [k \in 1..FALLBACK_COUNT |-> Rec(site, 100 + k)]

Returned(items) == [threw |-> FALSE, kind |-> "array", items |-> items]
ReturnedObject == [threw |-> FALSE, kind |-> "object", items |-> <<>>]
Threw == [threw |-> TRUE, kind |-> "array", items |-> <<>>]

(***************************************************************************)
(* What one outbound call can meet:                                        *)
(*   neterr    the fetch rejects (network error, abort)                    *)
(*   status    a non-success status with an error page as body             *)
(*   text      success, a body that is neither JSON nor a page with cards  *)
(*   shape     success, JSON with an object where the list is expected     *)
(*   json      success, JSON of the expected shape holding `items`         *)
(*   html      success, a page whose cards are `items`                     *)
(*   nextdata  success, a page whose __NEXT_DATA__ script holds `items`    *)
(***************************************************************************)
Outcome(kind, items) == [kind |-> kind, items |-> items]

ItemLists == {<<>>, <<2, 1>>}

Outcomes ==
    {Outcome(k, <<>>) : k \in {"neterr", "status", "text", "shape"}}
    \cup {Outcome(k, l) : k \in {"json", "html", "nextdata"}, l \in ItemLists}

(***************************************************************************)
(* The adapters.  Each is given the effective limit and what its outbound *)
(* calls meet (o1: the first call it makes, o2: the second, when it makes *)
(* one); `key` says whether THINGIVERSE_API_KEY is set.                   *)
(***************************************************************************)
searchPrintables(limit, o1) ==
    IF o1.kind = "json" THEN Returned(MapItems("printables", o1.items))
    ELSE Returned(<<>>)

searchThangs(limit, o1, o2) ==
    IF o1.kind = "neterr" THEN Returned(<<>>)
    ELSE IF o1.kind = "json"
    THEN Returned(MapItems("thangs", Slice(o1.items, limit)))
    ELSE \* not ok, not JSON, or not an array: the alternate endpoint
         IF o2.kind = "json"
         THEN Returned(MapItems("thangs", Slice(o2.items, limit)))
         ELSE Returned(<<>>)

\* the scrape of the search page: __NEXT_DATA__ first, then the cards
ThingiverseScrape(limit, o) ==
    IF o.kind = "nextdata" /\ o.items # <<>>
    THEN Returned(MapItems("thingiverse", Slice(o.items, limit)))
    ELSE IF o.kind = "html"
    THEN Returned(MapItems("thingiverse", ScrapeTake(o.items, limit)))
    ELSE Returned(<<>>)

searchThingiverse(limit, key, o1, o2) ==
    IF key
    THEN IF o1.kind = "json" /\ o1.items # <<>>
         THEN Returned(MapItems("thingiverse", Slice(o1.items, limit)))
         ELSE ThingiverseScrape(limit, o2)
    ELSE ThingiverseScrape(limit, o1)

searchMyMiniFactory(limit, o1, o2) ==
    IF o1.kind = "neterr" THEN Returned(<<>>)
    ELSE IF o1.kind = "json" /\ o1.items # <<>>
    THEN Returned(MapItems("myminifactory", Slice(o1.items, limit)))
    ELSE IF o2.kind = "html"
    THEN Returned(MapItems("myminifactory", ScrapeTake(o2.items, limit)))
    ELSE Returned(<<>>)

searchCrealityCloud(limit, o1) ==
    IF o1.kind = "json" THEN Returned(MapItems("crealitycloud", o1.items))
    ELSE Returned(<<>>)

searchYouMagine(limit, o1) ==
    IF o1.kind = "html"
    THEN Returned(MapItems("youmagine", ScrapeTake(o1.items, limit)))
    ELSE Returned(<<>>)

fetchPopularThingiverse(limit, key, o1) ==
    IF key /\ o1.kind = "json" /\ o1.items # <<>>
    THEN Returned(MapItems("thingiverse", Slice(o1.items, limit)))
    ELSE Returned(Slice(Fallback("thingiverse"), limit))

fetchPopularPrintables(limit, o1, o2) ==
    IF o1.kind \in {"neterr", "text", "html", "nextdata"} THEN Returned(<<>>)
    ELSE IF o1.kind = "json" /\ o1.items # <<>>
    THEN Returned(MapItems("printables", o1.items))
    ELSE searchPrintables(limit, o2)

fetchPopularThangs(limit) == Returned(Slice(Fallback("thangs"), limit))

fetchPopularMyMiniFactory(limit) ==
    Returned(Slice(Fallback("myminifactory"), limit))

fetchPopularCrealityCloud(limit, o1) ==
    IF o1.kind = "json" THEN Returned(MapItems("crealitycloud", o1.items))
    ELSE Returned(<<>>)

fetchPopularYouMagine(limit, o1) ==
    IF o1.kind = "html"
    THEN Returned(MapItems("youmagine", ScrapeTake(o1.items, limit)))
    ELSE Returned(<<>>)

\* a call of a function inherited from Object.prototype, this = the table:
\* constructor, toString, valueOf, ... return a value that is no array; the
\* accessor helpers throw on these arguments or return undefined, whose
\* .length the wrapper then fails to read
InheritedCall(site) ==
    IF site \in {"__defineGetter__", "__defineSetter__", "__lookupGetter__",
                 "__lookupSetter__"}
    THEN Threw
    ELSE ReturnedObject

\* searchFunctions[site](q, searchLimit, searchPage)
SearchCall(site, limit, key, o1, o2) ==
    CASE Lookup(site) = "object" -> Threw \* not a function: TypeError
      [] Lookup(site) = "function" -> InheritedCall(site)
      [] site = "thingiverse" -> searchThingiverse(limit, key, o1, o2)
      [] site = "printables" -> searchPrintables(limit, o1)
      [] site = "thangs" -> searchThangs(limit, o1, o2)
      [] site = "youmagine" -> searchYouMagine(limit, o1)
      [] site = "myminifactory" -> searchMyMiniFactory(limit, o1, o2)
      [] site = "crealitycloud" -> searchCrealityCloud(limit, o1)

\* fetchFunctions[site](searchLimit)
PopularCall(site, limit, key, o1, o2) ==
    CASE Lookup(site) = "object" -> Threw
      [] Lookup(site) = "function" -> InheritedCall(site)
      [] site = "thingiverse" -> fetchPopularThingiverse(limit, key, o1)
      [] site = "printables" -> fetchPopularPrintables(limit, o1, o2)
      [] site = "thangs" -> fetchPopularThangs(limit)
      [] site = "youmagine" -> fetchPopularYouMagine(limit, o1)
      [] site = "myminifactory" -> fetchPopularMyMiniFactory(limit)
      [] site = "crealitycloud" -> fetchPopularCrealityCloud(limit, o1)

\* the handler's wrapper: try { results = await f(...) } catch { results = [] }
Wrapped(r) == IF r.threw THEN [kind |-> "array", items |-> <<>>]
              ELSE [kind |-> r.kind, items |-> r.items]

(***************************************************************************)
(* Outbound calls an adapter makes, by what they meet.                     *)
(***************************************************************************)
SearchCallsMade(site, key, o1, o2) ==
    CASE site \notin KnownSites -> 0
      [] site = "thangs" ->
            IF o1.kind \in {"neterr", "json"} THEN 1 ELSE 2
      [] site = "thingiverse" ->
            IF key /\ ~(o1.kind = "json" /\ o1.items # <<>>) THEN 2 ELSE 1
      [] site = "myminifactory" ->
            IF o1.kind = "neterr" \/ (o1.kind = "json" /\ o1.items # <<>>)
            THEN 1 ELSE 2
      [] OTHER -> 1

PopularCallsMade(site, key, o1, o2) ==
    CASE site \notin KnownSites -> 0
      [] site \in {"thangs", "myminifactory"} -> 0
      [] site = "thingiverse" -> IF key THEN 1 ELSE 0
      [] site = "printables" ->
            IF o1.kind \in {"neterr", "text", "html", "nextdata"}
               \/ (o1.kind = "json" /\ o1.items # <<>>)
            THEN 1 ELSE 2
      [] OTHER -> 1

CallsMade(route, site, key, o1, o2) ==
    IF route = "popular" THEN PopularCallsMade(site, key, o1, o2)
    ELSE SearchCallsMade(site, key, o1, o2)

(***************************************************************************)
(* State.                                                                  *)
(***************************************************************************)
VARIABLES
    now,            \* Date.now()
    apiKey,         \* whether THINGIVERSE_API_KEY is set
    alive,          \* whether the process is running
    popularCache,   \* popularCache: data (key -> mapping) and timestamp
    imageCache,     \* imageCache: url -> entry
    inflight,       \* requests whose handler is suspended at an await
    started,        \* requests received so far
    last,           \* the response the latest step sent, with its request
    popularStored,  \* history: per cache key, the latest store and their number
    firstAnswered,  \* history: per (sorted sites, limit), the first answer
    imageStored,    \* history: per url, the latest store
    lastCall,       \* history: the adapter call that completed last, if noted
    imageSeen       \* history: per url, first arrival, first Content-Type, calls

vars ==
    <<now, apiKey, alive, popularCache, imageCache, inflight, started, last,
      lastCall,
      popularStored, firstAnswered, imageStored, imageSeen>>

Empty == [x \in {} |-> 0]

NoStore ==
    [exists |-> FALSE, time |-> 0, mapping |-> Empty, count |-> 0,
     by |-> <<<<>>, 0>>]
NoImage ==
    [exists |-> FALSE, time |-> 0, contentType |-> "", buffer |-> <<>>,
     count |-> 0]
NoUpstream == [kind |-> "none", status |-> 0, contentType |-> "", body |-> <<>>]

\* a request as received, with the handler's locals
Request(route, q, site, sites, limit, page, url) ==
    [id |-> 0, route |-> route, q |-> q, site |-> site, sites |-> sites,
     limit |-> limit, page |-> page, url |-> url,
     enabledSites |-> <<>>, searchLimit |-> 0, searchPage |-> 0,
     cacheKey |-> "", imageUrl |-> <<>>, referer |-> "", tasks |-> <<>>,
     lookupTime |-> 0, seen |-> NoStore, seenFirst |-> NoStore,
     seenImage |-> NoImage, waiting |-> FALSE, since |-> 0]

\* the response to request r
Response(r, status, body) ==
    [id |-> r.id, route |-> r.route, q |-> r.q, site |-> r.site,
     sites |-> r.sites, limit |-> r.limit, page |-> r.page, url |-> r.url,
     enabledSites |-> r.enabledSites, searchLimit |-> r.searchLimit,
     cacheKey |-> r.cacheKey,
     imageUrl |-> r.imageUrl, tasks |-> r.tasks,
     lookupTime |-> r.lookupTime, seen |-> r.seen, seenFirst |-> r.seenFirst,
     seenImage |-> r.seenImage, time |-> now,
     status |-> status, body |-> body.body, mapping |-> body.mapping,
     rpage |-> body.rpage, rlimit |-> body.rlimit, hit |-> body.hit,
     contentType |-> body.contentType, buffer |-> body.buffer,
     upstream |-> body.upstream, netCalls |-> body.netCalls]

NoBody ==
    [body |-> "none", mapping |-> Empty, rpage |-> 0, rlimit |-> 0,
     hit |-> FALSE, contentType |-> "", buffer |-> <<>>,
     upstream |-> NoUpstream, netCalls |-> 0]

ErrorBody(text) == [NoBody EXCEPT !.body = text]

NoResponse ==
    [Response(Request("none", Absent, "", Absent, Absent, Absent, Absent),
              0, NoBody) EXCEPT !.time = 0]

\* one invocation of an adapter by a fan-out handler
Task(site, limit, page) ==
    [site |-> site, limit |-> limit, page |-> page, state |-> "pending",
     result |-> [kind |-> "array", items |-> <<>>], threw |-> FALSE,
     failed |-> FALSE, since |-> 0]

Tasks(sites, limit, page) ==
    [i \in 1..Len(sites) |-> Task(sites[i], limit, page)]

\* a variant of AllDone that resumes on the first completion (Promise.any)
AnyDone(tasks) == \E i \in 1..Len(tasks) : tasks[i].state = "done"

\* await Promise.all(promises): the handler resumes when every one is settled
AllDone(tasks) == \A i \in 1..Len(tasks) : tasks[i].state = "done"

\* results.forEach(r => { response[r.site] = r.results }): a later entry of a
\* site replaces an earlier one; assigning to __proto__ sets the prototype
\* and adds no key
RECURSIVE Assemble(_, _)
Assemble(tasks, m) ==
    IF tasks = <<>> THEN m
    ELSE Assemble(Tail(tasks),
                  IF Head(tasks).site = "__proto__" THEN m
                  ELSE (Head(tasks).site :> Head(tasks).result) @@ m)

\* a variant of QMissing that lets the empty string pass
QMissingOnlyAbsent(q) == q.kind = "absent"

\* if (!q): undefined and the empty string are falsy
QMissing(q) == q.kind = "absent" \/ q.text = <<>>

\* the adapter call that a task stands for, by what its outbound calls meet
AdapterCall(route, t, key, o1, o2) ==
    IF route = "popular" THEN PopularCall(t.site, t.limit, key, o1, o2)
    ELSE SearchCall(t.site, t.limit, key, o1, o2)

\* what the second outbound call of an adapter can meet: anything when the
\* adapter makes it, and nothing of its own when it makes none
SecondOutcomes(route, site, key, o1) ==
    IF CallsMade(route, site, key, o1, o1) = 2 THEN Outcomes ELSE {o1}

\* an outbound call that ends in a network error or a non-success status
CallFailed(o) == o.kind \in {"neterr", "status"}

\* history: the invocation made outbound calls and each of them failed
AllCallsFailed(route, site, key, o1, o2) ==
    LET n == CallsMade(route, site, key, o1, o2)
    IN  /\ n >= 1
        /\ CallFailed(o1)
        /\ n = 2 => CallFailed(o2)

\* history of one adapter call: what its outbound calls met, how many it
\* made, and the records it handed back
Call(route, site, key, o1, o2) ==
    [route |-> route, site |-> site, key |-> key, first |-> o1,
     second |-> IF CallsMade(route, site, key, o1, o2) = 2 THEN o2
                ELSE Outcome("none", <<>>),
     calls |-> CallsMade(route, site, key, o1, o2), records |-> <<>>]

NoCall == Call("none", "", FALSE, Outcome("none", <<>>), Outcome("none", <<>>))

\* every way the call can end: what it hands back, and whether its outbound
\* calls all failed
AdapterEnds(route, t, key, noted) ==
    UNION {{[result |-> AdapterCall(route, t, key, o1, o2),
             failed |-> AllCallsFailed(route, t.site, key, o1, o2),
             call |-> IF noted THEN Call(route, t.site, key, o1, o2)
                      ELSE NoCall] :
                o2 \in SecondOutcomes(route, t.site, key, o1)} : o1 \in Outcomes}

Init ==
    /\ now = 0
    /\ apiKey \in BOOLEAN
    /\ alive = TRUE
    /\ lastCall = NoCall
    /\ popularCache = [data |-> Empty, timestamp |-> 0]
    /\ imageCache = Empty
    /\ inflight = {}
    /\ started = 0
    /\ last = NoResponse
    /\ popularStored = Empty
    /\ firstAnswered = Empty
    /\ imageStored = Empty
    /\ imageSeen = Empty

CanReceive(cap) ==
    alive /\ started < MaxStarted /\ Cardinality(inflight) < cap

\* the handler returns or suspends: r is the request with its locals
Suspend(r) ==
    /\ inflight' = inflight \cup {r}
    /\ started' = started + 1
    /\ last' = NoResponse
    /\ alive' = alive

Answer(r, status, body) ==
    /\ last' = Response(r, status, body)
    /\ inflight' = inflight \ {x \in inflight : x.id = r.id}

AnswerAtOnce(r, status, body) ==
    /\ last' = Response(r, status, body)
    /\ started' = started + 1
    /\ inflight' = inflight
    /\ alive' = alive

\* an exception leaves the async handler: its promise rejects.  Where the
\* router does not look at the promise (Express 4) the rejection is
\* unhandled, no response is sent and Node ends the process, taking the
\* requests in flight with it; where it does (Express 5) the default error
\* handler answers 500.
Escapes(r) ==
    /\ started' = started + 1
    /\ \/ /\ alive' = FALSE
          /\ inflight' = {}
          /\ last' = Response(r, 0, ErrorBody("unhandled rejection"))
       \/ /\ alive' = alive
          /\ inflight' = inflight
          /\ last' = Response(r, 500, ErrorBody("Internal Server Error"))

(***************************************************************************)
(* GET /api/search                                                         *)
(***************************************************************************)
ReceiveSearch(req, cap) ==
    /\ CanReceive(cap)
    /\ LET enabled == EnabledSites(req.sites)
           limit == SearchLimit(req.limit)
           page == SearchPage(req.page)
           r == [req EXCEPT !.id = started + 1,
                            !.enabledSites = enabled,
                            !.searchLimit = limit,
                            !.searchPage = page,
                            !.tasks = Tasks(FilterSites(enabled), limit, page)]
       IN  IF QMissing(req.q)
           THEN AnswerAtOnce([req EXCEPT !.id = started + 1], 400,
                             ErrorBody("Query parameter \"q\" is required"))
           ELSE IF req.sites.kind = "array"
           THEN \* siteParam.split is not a function, outside the try
                Escapes([req EXCEPT !.id = started + 1])
           ELSE Suspend(r)
    /\ UNCHANGED <<now, apiKey, lastCall, popularCache, imageCache, popularStored,
                   firstAnswered, imageStored, imageSeen>>

\* an adapter invoked by a handler completes, in one of the ways it can
AdapterReturns(r, i, noted) ==
    /\ r \in inflight
    /\ r.route \in {"search", "searchSite", "popular"}
    /\ i \in 1..Len(r.tasks)
    /\ r.tasks[i].state = "pending"
    /\ \E end \in AdapterEnds(r.route, r.tasks[i], apiKey, noted) :
          LET done == [r.tasks[i] EXCEPT !.state = "done",
                                        !.result = Wrapped(end.result),
                                        !.threw = end.result.threw,
                                        !.failed = end.failed]
          IN  /\ inflight' = (inflight \ {r}) \cup {[r EXCEPT !.tasks[i] = done]}
              /\ lastCall' = IF noted
                            THEN [end.call EXCEPT !.records = end.result.items]
                            ELSE end.call
    /\ last' = NoResponse
    /\ UNCHANGED <<now, apiKey, alive, popularCache, imageCache, started,
                   popularStored, firstAnswered, imageStored, imageSeen>>

\* a variant of RespondSearch that keeps the response in the popular cache
RespondSearchCaching(r) ==
    /\ r \in inflight
    /\ r.route = "search"
    /\ AllDone(r.tasks)
    /\ Answer(r, 200, [NoBody EXCEPT !.body = "results",
                                     !.mapping = Assemble(r.tasks, Empty),
                                     !.rpage = r.searchPage,
                                     !.rlimit = r.searchLimit])
    /\ popularCache' =
          [data |-> ("search" :> Assemble(r.tasks, Empty)) @@ popularCache.data,
           timestamp |-> now]
    /\ UNCHANGED <<now, apiKey, lastCall, alive, imageCache, started,
                   popularStored, firstAnswered, imageStored, imageSeen>>

\* await Promise.all(searchPromises) resumes: the response is assembled
RespondSearch(r) ==
    /\ r \in inflight
    /\ r.route = "search"
    /\ AllDone(r.tasks)
    /\ Answer(r, 200, [NoBody EXCEPT !.body = "results",
                                     !.mapping = Assemble(r.tasks, Empty),
                                     !.rpage = r.searchPage,
                                     !.rlimit = r.searchLimit])
    /\ UNCHANGED <<now, apiKey, lastCall, alive, popularCache, imageCache, started,
                   popularStored, firstAnswered, imageStored, imageSeen>>

(***************************************************************************)
(* GET /api/search/:site                                                   *)
(***************************************************************************)
ReceiveSearchSite(req, cap) ==
    /\ CanReceive(cap)
    /\ LET limit == SearchLimit(req.limit)
           page == SearchPage(req.page)
           r == [req EXCEPT !.id = started + 1,
                            !.searchLimit = limit,
                            !.searchPage = page,
                            !.tasks = Tasks(<<req.site>>, limit, page)]
       IN  IF QMissing(req.q)
           THEN AnswerAtOnce([req EXCEPT !.id = started + 1], 400,
                             ErrorBody("Query parameter \"q\" is required"))
           ELSE IF ~Truthy(req.site)
           THEN AnswerAtOnce([req EXCEPT !.id = started + 1], 400,
                             ErrorBody("Invalid site"))
           ELSE Suspend(r)
    /\ UNCHANGED <<now, apiKey, lastCall, popularCache, imageCache, popularStored,
                   firstAnswered, imageStored, imageSeen>>

\* await searchFunctions[site](...) resumes, or its rejection is caught
RespondSearchSite(r) ==
    /\ r \in inflight
    /\ r.route = "searchSite"
    /\ AllDone(r.tasks)
    /\ IF r.tasks[1].threw
       THEN Answer(r, 500, ErrorBody("Search failed"))
       ELSE Answer(r, 200, [NoBody EXCEPT !.body = "results",
                                          !.mapping = Assemble(r.tasks, Empty),
                                          !.rpage = r.searchPage])
    /\ UNCHANGED <<now, apiKey, lastCall, alive, popularCache, imageCache, started,
                   popularStored, firstAnswered, imageStored, imageSeen>>

(***************************************************************************)
(* GET /api/search-urls and GET /api/health                                *)
(***************************************************************************)
ReceiveSearchUrls(req, cap) ==
    /\ CanReceive(cap)
    /\ IF QMissing(req.q)
       THEN AnswerAtOnce([req EXCEPT !.id = started + 1], 400,
                         ErrorBody("Query parameter \"q\" is required"))
       ELSE AnswerAtOnce([req EXCEPT !.id = started + 1], 200,
                         [NoBody EXCEPT !.body = "searchUrls"])
    /\ UNCHANGED <<now, apiKey, lastCall, popularCache, imageCache, popularStored,
                   firstAnswered, imageStored, imageSeen>>

ReceiveHealth(req, cap) ==
    /\ CanReceive(cap)
    /\ AnswerAtOnce([req EXCEPT !.id = started + 1], 200,
                    [NoBody EXCEPT !.body = "health"])
    /\ UNCHANGED <<now, apiKey, lastCall, popularCache, imageCache, popularStored,
                   firstAnswered, imageStored, imageSeen>>

(***************************************************************************)
(* Requests of the search routes.                                          *)
(***************************************************************************)
QInputs == {Absent, Str(<<>>), Str(<<"benchy">>)}

LimitInputs ==
    {Absent, Str(<<>>), Str(<<"a", "b", "c">>), Str(<<"0">>),
     Str(<<"-", "5">>), Str(<<"1">>), Str(<<"5">>), Str(<<"2", "0">>),
     Str(<<"2", "1">>), Str(<<"9", "9", "9">>), Str(<<" ", "7", "a">>),
     Str(<<"0", "x", "1", "f">>)}

PageInputs ==
    {Absent, Str(<<>>), Str(<<"a", "b", "c">>), Str(<<"0">>),
     Str(<<"-", "5">>), Str(<<"1">>), Str(<<"3">>), Str(<<"2", "x">>)}

SiteInputs ==
    {Absent, Str(<<"">>), Str(<<"thingiverse">>), Str(<<"thangs", "foo">>),
     Str(<<"printables", "", "crealitycloud">>), Str(<<"constructor">>),
     Str(<<"__proto__", "youmagine">>), Str(<<"myminifactory", "myminifactory">>),
     Str(<<"foo">>)}

PathSites == {"thingiverse", "printables", "thangs", "foo", "constructor", "__proto__"}

\* one parameter varies at a time around a plain request
SearchRequests ==
    {Request("search", q, "", Str(<<"thingiverse">>), Absent, Absent, Absent) :
        q \in QInputs}
    \cup {Request("search", Str(<<"benchy">>), "", sites, Absent, Absent, Absent) :
        sites \in SiteInputs}
    \cup {Request("search", Str(<<"benchy">>), "", Str(<<"thangs", "printables">>),
                  limit, Absent, Absent) : limit \in LimitInputs}
    \cup {Request("search", Str(<<"benchy">>), "", Str(<<"youmagine">>),
                  Absent, page, Absent) : page \in PageInputs}
    \cup {Request("search", Absent, "", Absent, Str(<<"5">>), Str(<<"3">>), Absent)}
    \cup {Request("search", Str(<<"benchy">>), "",
                  Arr(<<"thingiverse", "printables">>), Absent, Absent, Absent)}

SearchSiteRequests ==
    {Request("searchSite", q, "thangs", Absent, Absent, Absent, Absent) :
        q \in QInputs}
    \cup {Request("searchSite", Str(<<"benchy">>), site, Absent, Absent, Absent, Absent) :
        site \in PathSites}
    \cup {Request("searchSite", Str(<<"benchy">>), "printables", Absent, limit,
                  Absent, Absent) : limit \in LimitInputs}
    \cup {Request("searchSite", Str(<<"benchy">>), "thingiverse", Absent, Absent,
                  page, Absent) : page \in PageInputs}

SearchUrlsRequests ==
    {Request("searchUrls", q, "", Absent, Absent, Absent, Absent) : q \in QInputs}

HealthRequests ==
    {Request("health", Absent, "", Absent, Absent, Absent, Absent)}

Next ==
    \/ \E req \in SearchRequests : ReceiveSearch(req, 1)
    \/ \E req \in SearchSiteRequests : ReceiveSearchSite(req, 1)
    \/ \E req \in SearchUrlsRequests : ReceiveSearchUrls(req, 1)
    \/ \E req \in HealthRequests : ReceiveHealth(req, 1)
    \/ \E r \in inflight : \E i \in 1..Len(r.tasks) : AdapterReturns(r, i, FALSE)
    \/ \E r \in inflight : RespondSearch(r)
    \/ \E r \in inflight : RespondSearchSite(r)

\* the search routes, one request at a time
Spec == Init /\ [][Next]_vars

(***************************************************************************)
(* GET /api/popular                                                        *)
(***************************************************************************)
\* a variant of PopularFresh in which an entry never goes stale
PopularFreshForever(cache, key, t) == key \in DOMAIN cache.data

\* a variant of PopularFresh with a lifetime of one minute
PopularFreshOneMinute(cache, key, t) ==
    key \in DOMAIN cache.data /\ t - cache.timestamp < MS_PER_MINUTE

\* popularCache.data?.[cacheKey] && Date.now() - popularCache.timestamp < TTL
PopularFresh(cache, key, t) ==
    key \in DOMAIN cache.data /\ t - cache.timestamp < POPULAR_TTL

\* history: what a request finds stored under its key when it looks it up
StoredAt(stored, key, none) == IF key \in DOMAIN stored THEN stored[key] ELSE none

Combination(enabledSites, searchLimit) == <<Sort(enabledSites), searchLimit>>

NoteFirstAnswer(comb, mapping) ==
    firstAnswered' =
        IF comb \in DOMAIN firstAnswered THEN firstAnswered
        ELSE (comb :> [exists |-> TRUE, time |-> now, mapping |-> mapping,
                       count |-> 1, by |-> comb]) @@ firstAnswered

ReceivePopular(req, cap) ==
    /\ CanReceive(cap)
    /\ LET enabled == EnabledSites(req.sites)
           limit == SearchLimit(req.limit)
           key == CacheKey(enabled, limit)
           sorted == Sort(enabled)
           r == [req EXCEPT !.id = started + 1,
                            !.enabledSites = sorted,
                            !.searchLimit = limit,
                            !.cacheKey = key,
                            !.lookupTime = now,
                            !.seen = StoredAt(popularStored, key, NoStore),
                            !.seenFirst = StoredAt(firstAnswered,
                                                   Combination(enabled, limit),
                                                   NoStore)]
       IN  IF req.sites.kind = "array"
           THEN \* siteParam.split is not a function; the handler has no try
                /\ Escapes([req EXCEPT !.id = started + 1])
                /\ UNCHANGED firstAnswered
           ELSE IF PopularFresh(popularCache, key, now)
           THEN /\ AnswerAtOnce(r, 200,
                                [NoBody EXCEPT !.body = "popular",
                                               !.mapping = popularCache.data[key],
                                               !.hit = TRUE])
                /\ NoteFirstAnswer(Combination(enabled, limit),
                                   popularCache.data[key])
           ELSE /\ Suspend([r EXCEPT !.tasks =
                                Tasks(FilterSites(sorted), limit, 0)])
                /\ UNCHANGED firstAnswered
    /\ UNCHANGED <<now, apiKey, lastCall, popularCache, imageCache, popularStored,
                   imageStored, imageSeen>>

\* await Promise.all(promises) resumes: the response is assembled, stored
\* under the key with the one timestamp of the cache, and sent
StorePopular(r) ==
    /\ r \in inflight
    /\ r.route = "popular"
    /\ AllDone(r.tasks)
    /\ LET response == Assemble(r.tasks, Empty)
           before == StoredAt(popularStored, r.cacheKey, NoStore)
       IN  /\ popularCache' =
                [data |-> (r.cacheKey :> response) @@ popularCache.data,
                 timestamp |-> now]
           /\ popularStored' =
                (r.cacheKey :> [exists |-> TRUE, time |-> now,
                                mapping |-> response,
                                count |-> before.count + 1,
                                by |-> <<r.enabledSites, r.searchLimit>>])
                    @@ popularStored
           /\ NoteFirstAnswer(<<r.enabledSites, r.searchLimit>>, response)
           /\ Answer(r, 200, [NoBody EXCEPT !.body = "popular",
                                            !.mapping = response])
    /\ UNCHANGED <<now, apiKey, lastCall, alive, imageCache, started, imageStored, imageSeen>>

\* time passes
Tick(d, horizon) ==
    /\ now + d <= horizon * MS_PER_MINUTE
    /\ now' = now + d
    /\ last' = NoResponse
    /\ UNCHANGED <<apiKey, lastCall, alive, popularCache, imageCache, inflight, started,
                   popularStored, firstAnswered, imageStored, imageSeen>>

(***************************************************************************)
(* GET /api/image                                                          *)
(***************************************************************************)
\* decodeURIComponent, token by token: an escape is decoded, a lone % is a
\* malformed escape and throws URIError
DecodeToken(tok) ==
    CASE tok = "%3A" -> ":"
      [] tok = "%2F" -> "/"
      [] OTHER -> tok

Decodable(url) == \A i \in 1..Len(url) : url[i] # "%"

DecodeURIComponent(url) == [i \in 1..Len(url) |-> DecodeToken(url[i])]

\* imageUrl.startsWith('http://') || imageUrl.startsWith('https://')
StartsWithHttp(url) ==
    /\ Len(url) >= 4
    /\ url[1] \in {"http", "https"}
    /\ url[2] = ":" /\ url[3] = "/" /\ url[4] = "/"

\* the tokens of the model that contain a needle as a substring
TokensIncluding(needle) ==
    CASE needle = "thingiverse.com" -> {"thingiverse.com", "cdn.thingiverse.com"}
      [] needle = "thangs.com" -> {"thangs.com"}
      [] needle = "myminifactory.com" -> {"myminifactory.com"}
      [] needle = "creality.com" -> {"creality.com", "pic.creality.com"}

\* imageUrl.includes(needle)
Includes(url, needle) ==
    \E i \in 1..Len(url) : url[i] \in TokensIncluding(needle)

RefererFor(url) ==
    IF Includes(url, "thingiverse.com") THEN "https://www.thingiverse.com/"
    ELSE IF Includes(url, "thangs.com") THEN "https://thangs.com/"
    ELSE IF Includes(url, "myminifactory.com") THEN "https://www.myminifactory.com/"
    ELSE IF Includes(url, "creality.com") THEN "https://www.crealitycloud.com/"
    ELSE ""

\* what node-fetch accepts as a URL: a scheme, ://, and a host
Fetchable(url) == StartsWithHttp(url) /\ Len(url) >= 5 /\ url[5] \notin {"/", ""}

\* a variant of ResponseOk that takes client errors for success
ResponseOkBelow500(status) == status >= 200 /\ status <= 499

\* response.ok
ResponseOk(status) == status >= 200 /\ status <= 299

\* a variant of ImageFresh that still serves an entry aged exactly the lifetime
ImageFreshAtTtl(cache, url, t) ==
    url \in DOMAIN cache /\ t - cache[url].timestamp <= IMAGE_CACHE_TTL

\* a variant of ImageFresh with a lifetime of one minute
ImageFreshOneMinute(cache, url, t) ==
    url \in DOMAIN cache /\ t - cache[url].timestamp < MS_PER_MINUTE

\* cached && Date.now() - cached.timestamp < IMAGE_CACHE_TTL
ImageFresh(cache, url, t) ==
    url \in DOMAIN cache /\ t - cache[url].timestamp < IMAGE_CACHE_TTL

\* a variant of Sweep that also deletes an entry aged exactly the lifetime
SweepFromTtl(cache, t) ==
    IF Cardinality(DOMAIN cache) > IMAGE_CACHE_MAX
    THEN [k \in {u \in DOMAIN cache : ~(t - cache[u].timestamp >= IMAGE_CACHE_TTL)}
            |-> cache[k]]
    ELSE cache

\* the sweep after a store: for (...) if (now - value.timestamp > TTL) delete
Sweep(cache, t) ==
    IF Cardinality(DOMAIN cache) > IMAGE_CACHE_MAX
    THEN [k \in {u \in DOMAIN cache : ~(t - cache[u].timestamp > IMAGE_CACHE_TTL)}
            |-> cache[k]]
    ELSE cache

\* what the upstream fetch of url can meet: the fetch rejects, a response
\* whose body cannot be read, or a response; the body names the url and the
\* status it was served with
Upstream(kind, status, contentType, url, ver) ==
    [kind |-> kind, status |-> status, contentType |-> contentType,
     body |-> <<[from |-> url, status |-> status, ver |-> ver]>>]

UpstreamResponses(url) ==
    {Upstream("rejected", 0, "", url, 0),
     Upstream("bodyerror", 200, "image/png", url, 0),
     Upstream("response", 200, "image/png", url, 1),
     Upstream("response", 200, "", url, 2),
     Upstream("response", 404, "text/html", url, 0)}

NoSeen == [first |-> 0, firstType |-> "", calls |-> 0]

\* history: a request for url arrives; `fetches` says whether it calls upstream
NoteArrival(url, fetches) ==
    LET s == IF url \in DOMAIN imageSeen THEN imageSeen[url]
             ELSE [NoSeen EXCEPT !.first = now]
    IN  (url :> [s EXCEPT !.calls = s.calls + (IF fetches THEN 1 ELSE 0)])
        @@ imageSeen

\* history: the first response for url that carries a Content-Type
NoteType(seen, url, contentType) ==
    IF seen[url].firstType # "" THEN seen
    ELSE (url :> [seen[url] EXCEPT !.firstType = contentType]) @@ seen

\* a variant of StoreImage that keeps the entry a key already has
StoreImageIfAbsent(cache, url, entry) ==
    IF url \in DOMAIN cache THEN cache ELSE (url :> entry) @@ cache

\* imageCache.set(imageUrl, {...}): the entry of the key is replaced
StoreImage(cache, url, entry) == (url :> entry) @@ cache

ReceiveImage(req, cap) ==
    /\ CanReceive(cap)
    /\ LET r0 == [req EXCEPT !.id = started + 1, !.lookupTime = now]
           imageUrl == DecodeURIComponent(req.url.text)
           r == [r0 EXCEPT !.imageUrl = imageUrl,
                           !.referer = RefererFor(imageUrl),
                           !.seenImage = StoredAt(imageStored, imageUrl, NoImage)]
       IN  IF req.url.kind = "absent" \/ req.url.text = <<>>
           THEN /\ AnswerAtOnce(r0, 400, ErrorBody("URL parameter required"))
                /\ UNCHANGED imageSeen
           ELSE IF ~Decodable(req.url.text)
           THEN /\ AnswerAtOnce(r0, 500, ErrorBody("Failed to fetch image"))
                /\ UNCHANGED imageSeen
           ELSE IF ~StartsWithHttp(imageUrl)
           THEN /\ AnswerAtOnce([r0 EXCEPT !.imageUrl = imageUrl], 400,
                                ErrorBody("Invalid URL"))
                /\ UNCHANGED imageSeen
           ELSE IF ImageFresh(imageCache, imageUrl, now)
           THEN /\ AnswerAtOnce(r, 200,
                       [NoBody EXCEPT !.body = "image",
                                      !.hit = TRUE,
                                      !.contentType = imageCache[imageUrl].contentType,
                                      !.buffer = imageCache[imageUrl].buffer])
                /\ imageSeen' = NoteType(NoteArrival(imageUrl, FALSE), imageUrl,
                                         imageCache[imageUrl].contentType)
           ELSE IF ~Fetchable(imageUrl)
           THEN \* fetch rejects the URL before any call is made; the
                \* rejection is caught before another request is handled
                /\ AnswerAtOnce(r, 500, ErrorBody("Failed to fetch image"))
                /\ imageSeen' = NoteArrival(imageUrl, FALSE)
           ELSE /\ Suspend(r)
                /\ imageSeen' = NoteArrival(imageUrl, TRUE)
    /\ UNCHANGED <<now, apiKey, lastCall, popularCache, imageCache, popularStored,
                   firstAnswered, imageStored>>

\* await fetch(imageUrl, ...) and await response.arrayBuffer() resume, or
\* their rejection is caught
ImageFetchReturns(r, up) ==
    /\ r \in inflight
    /\ r.route = "image"
    /\ ~r.waiting
    /\ up \in UpstreamResponses(r.imageUrl)
    /\ LET contentType == IF up.contentType = "" THEN "image/jpeg"
                          ELSE up.contentType
           entry == [buffer |-> up.body, contentType |-> contentType,
                     timestamp |-> now]
           body == [NoBody EXCEPT !.upstream = up, !.netCalls = 1]
       IN  IF up.kind = "rejected"
           THEN /\ Answer(r, 500, [body EXCEPT !.body = "Failed to fetch image"])
                /\ UNCHANGED <<imageCache, imageStored, imageSeen>>
           ELSE IF ~ResponseOk(up.status)
           THEN /\ Answer(r, up.status, [body EXCEPT !.body = "Failed to fetch image"])
                /\ UNCHANGED <<imageCache, imageStored, imageSeen>>
           ELSE IF up.kind = "bodyerror"
           THEN /\ Answer(r, 500, [body EXCEPT !.body = "Failed to fetch image"])
                /\ UNCHANGED <<imageCache, imageStored, imageSeen>>
           ELSE /\ imageCache' = Sweep(StoreImage(imageCache, r.imageUrl, entry),
                                       now)
                /\ imageStored' =
                      (r.imageUrl :>
                          [exists |-> TRUE, time |-> now,
                           contentType |-> contentType, buffer |-> up.body,
                           count |-> StoredAt(imageStored, r.imageUrl,
                                              NoImage).count + 1])
                      @@ imageStored
                /\ imageSeen' = NoteType(imageSeen, r.imageUrl, contentType)
                /\ Answer(r, 200, [body EXCEPT !.body = "image",
                                               !.contentType = contentType,
                                               !.buffer = up.body])
    /\ UNCHANGED <<now, apiKey, lastCall, alive, popularCache, started, popularStored,
                   firstAnswered>>

UrlA == <<"https", ":", "/", "/", "cdn.thingiverse.com", "/", "a.jpg">>
UrlAEncoded == <<"https", "%3A", "%2F", "%2F", "cdn.thingiverse.com", "%2F", "a.jpg">>
UrlB == <<"http", ":", "/", "/", "example.com", "/", "b.png">>

ImageRequests ==
    {Request("image", Absent, "", Absent, Absent, Absent, url) :
        url \in {Absent, Str(<<>>), Str(UrlAEncoded), Str(UrlB),
                 Str(<<"ftp", ":", "/", "/", "example.com", "/", "b.png">>),
                 Str(<<"https", ":", "/", "/", "example.com", "/", "%">>),
                 Str(<<"https", ":", "/", "/">>)}}

ImageSteps == {15 * MS_PER_MINUTE}

NextImage ==
    \/ \E req \in ImageRequests : ReceiveImage(req, MaxInFlight)
    \/ \E r \in inflight : \E up \in UpstreamResponses(r.imageUrl) :
          ImageFetchReturns(r, up)
    \/ \E d \in ImageSteps : Tick(d, ImageHorizon)

\* /api/image: requests overlap and time passes
SpecImage == Init /\ [][NextImage]_vars

PopularRequests ==
    {Request("popular", Absent, "", sites, Absent, Absent, Absent) :
        sites \in {Str(<<"thingiverse">>), Str(<<"thangs", "myminifactory">>)}}

PopularSteps == {3 * MS_PER_MINUTE}

NextPopular ==
    \/ \E req \in PopularRequests : ReceivePopular(req, MaxInFlight)
    \/ \E r \in inflight : \E i \in 1..Len(r.tasks) : AdapterReturns(r, i, FALSE)
    \/ \E r \in inflight : StorePopular(r)
    \/ \E d \in PopularSteps : Tick(d, PopularHorizon)

\* /api/popular: requests overlap and time passes
SpecPopular == Init /\ [][NextPopular]_vars

(***************************************************************************)
(* Properties.  `last` is the response sent by the latest step together   *)
(* with the request it answers.                                            *)
(***************************************************************************)
Range(s) == {s[i] : i \in 1..Len(s)}

EmptyArray == [kind |-> "array", items |-> <<>>]

\* clamp(v, lo, hi)
Clamp(v, lo, hi) == Max(lo, Min(v, hi))

\* the parsed value of a numeric parameter, or the default d
ParsedOr(param, defaultText, d) ==
    LET p == ParseInt(WithDefault(param, defaultText))
    IN  IF p.nan \/ p.value = 0 THEN d ELSE p.value

\* C1: every /api/search and /api/popular request is answered 200 with a
\* mapping whose key set is exactly the requested ids that are among the six
\* known source ids, and nothing is invoked for any other requested id.
C1_KeySet ==
    (/\ last.route \in {"search", "popular"}
     /\ ~(last.route = "search" /\ (last.q.kind = "absent" \/ last.q.text = <<>>)))
        => /\ last.status = 200
           /\ DOMAIN last.mapping = Range(last.enabledSites) \cap KnownSites
           /\ \A i \in 1..Len(last.tasks) : last.tasks[i].site \in KnownSites

\* C2: on /api/search, /api/search/:site and /api/popular the limit handed to
\* the adapters, and echoed by /api/search, is clamp(parsed limit or 10, 1, 20).
C2_LimitClamp ==
    (last.route \in {"search", "searchSite", "popular"} /\ last.status = 200) =>
        LET expected == Clamp(ParsedOr(last.limit, DefaultLimitText, DEFAULT_LIMIT),
                              1, MAX_LIMIT)
        IN  /\ \A i \in 1..Len(last.tasks) : last.tasks[i].limit = expected
            /\ last.route = "search" => last.rlimit = expected

\* C3: on /api/search and /api/search/:site the page handed to the adapters
\* and echoed in the response is max(parsed page or 1, 1), so page=-5 and
\* page=0 give the adapter calls of page=1.
C3_PageFloor ==
    /\ \A r \in inflight :
          r.route \in {"search", "searchSite"} =>
              \A i \in 1..Len(r.tasks) :
                  r.tasks[i].page =
                      Max(ParsedOr(r.page, DefaultPageText, DEFAULT_PAGE), 1)
    /\ (last.route \in {"search", "searchSite"} /\ last.status = 200) =>
          /\ last.rpage = Max(ParsedOr(last.page, DefaultPageText, DEFAULT_PAGE), 1)
          /\ \A i \in 1..Len(last.tasks) : last.tasks[i].page = last.rpage

\* a /api/search request with page=-5 was answered with page 1, its adapter
\* having been called with page 1
C3_Witness ==
    /\ last.route = "search"
    /\ last.status = 200
    /\ last.page = Str(<<"-", "5">>)
    /\ last.rpage = 1
    /\ Len(last.tasks) = 1
    /\ last.tasks[1].page = 1
    /\ last.tasks[1].state = "done"

\* C4 (as stated): once a /api/popular request for a (site list, limit)
\* combination has been answered, every later request for the combination
\* answered within 5 minutes of that first answer returns the identical
\* mapping, whatever is in flight or completes in between.
C4_SameAsFirstAnswer ==
    LET comb == <<last.enabledSites, last.searchLimit>>
    IN  (/\ last.route = "popular"
         /\ last.status = 200
         /\ comb \in DOMAIN firstAnswered
         /\ last.time - firstAnswered[comb].time <= POPULAR_TTL)
            => last.mapping = firstAnswered[comb].mapping

\* C4 (amended): after a mapping has been stored under a cache key, every
\* /api/popular request with that key that arrives less than 5 minutes after
\* the latest store under the key is answered at once, without invoking an
\* adapter, with the mapping stored last under the key.
C4_SameAsLatestStore ==
    (/\ last.route = "popular"
     /\ last.seen.exists
     /\ last.lookupTime - last.seen.time < POPULAR_TTL)
        => /\ last.status = 200
           /\ last.hit
           /\ last.tasks = <<>>
           /\ last.time = last.lookupTime
           /\ last.mapping = last.seen.mapping

\* a request arriving 3 minutes after the store under its key, a request for
\* another key having been answered in between, is answered from the cache
C4_Witness ==
    /\ last.route = "popular"
    /\ last.hit
    /\ last.seen.exists
    /\ last.lookupTime - last.seen.time = 3 * MS_PER_MINUTE
    /\ last.mapping = last.seen.mapping
    /\ DOMAIN last.mapping # {}
    /\ Cardinality(DOMAIN popularCache.data) = 2

\* C5: a popular-results entry is served only while less than 5 minutes have
\* passed since that entry itself was stored; a request arriving 5 minutes or
\* more after the store under its key is a miss and invokes the adapters.
C5_OwnAge ==
    (last.route = "popular" /\ last.status = 200) =>
        /\ last.hit => (/\ last.seen.exists
                        /\ last.lookupTime - last.seen.time < POPULAR_TTL)
        /\ (last.seen.exists /\ last.lookupTime - last.seen.time >= POPULAR_TTL)
              => (~last.hit /\ last.tasks # <<>>)

\* C9: in a /api/search or /api/popular request the response has status 200,
\* maps every selected adapter whose outbound calls failed (network error,
\* non-success status) or that threw to the empty array, and maps every other
\* selected adapter to exactly what it returned.
C9_FailuresIsolated ==
    (last.route \in {"search", "popular"} /\ last.tasks # <<>>) =>
        /\ last.status = 200
        /\ \A i \in 1..Len(last.tasks) :
              LET t == last.tasks[i]
              IN  t.site \in KnownSites =>
                      /\ t.site \in DOMAIN last.mapping
                      /\ last.mapping[t.site] =
                            IF t.failed \/ t.threw THEN EmptyArray ELSE t.result

\* C10: a /api/search, /api/search/:site or /api/search-urls request whose q
\* is missing or empty is answered 400 with an error payload at once: no
\* adapter is invoked for it, no outbound call is made and no cache changes.
C10_MissingQuery ==
    [][/\ \A r \in inflight' :
              r.route \in {"search", "searchSite", "searchUrls"} =>
                  ~(r.q.kind = "absent" \/ r.q.text = <<>>)
       /\ (/\ last'.route \in {"search", "searchSite", "searchUrls"}
           /\ (last'.q.kind = "absent" \/ last'.q.text = <<>>))
             => /\ last'.status = 400
                /\ last'.body = "Query parameter \"q\" is required"
                /\ last'.tasks = <<>>
                /\ last'.netCalls = 0
                /\ inflight' = inflight
                /\ popularCache' = popularCache
                /\ imageCache' = imageCache]_vars

\* /api/search/:site with an empty q was answered 400
C10_Witness ==
    /\ last.route = "searchSite"
    /\ last.q = Str(<<>>)
    /\ last.site \in KnownSites
    /\ last.status = 400
    /\ last.tasks = <<>>
    /\ inflight = {}

\* C6 (as stated): while the /api/image requests for one url are issued
\* within 30 minutes of each other, requests that overlap included, at most
\* one upstream call is made for the url and every response carries the
\* Content-Type of the first.
C6_OneUpstreamCall ==
    \A url \in DOMAIN imageSeen :
        now - imageSeen[url].first < IMAGE_CACHE_TTL =>
            /\ imageSeen[url].calls <= 1
            /\ (last.route = "image" /\ last.status = 200 /\ last.imageUrl = url)
                  => last.contentType = imageSeen[url].firstType

\* C6 (amended): once an upstream fetch for a url has succeeded and been
\* stored, every /api/image request for the url that arrives less than 30
\* minutes after the latest store for it makes no upstream call and is
\* answered with the stored body and Content-Type.
C6_ServedFromStore ==
    (/\ last.route = "image"
     /\ last.seenImage.exists
     /\ last.lookupTime - last.seenImage.time < IMAGE_CACHE_TTL)
        => /\ last.status = 200
           /\ last.hit
           /\ last.netCalls = 0
           /\ last.upstream = NoUpstream
           /\ last.time = last.lookupTime
           /\ last.contentType = last.seenImage.contentType
           /\ last.buffer = last.seenImage.buffer

\* a request arriving 15 minutes after the store of its url, made from an
\* upstream response without Content-Type, is answered from the cache
C6_Witness ==
    /\ last.route = "image"
    /\ last.hit
    /\ last.seenImage.exists
    /\ last.lookupTime - last.seenImage.time = 15 * MS_PER_MINUTE
    /\ last.url = Str(UrlAEncoded)
    /\ last.imageUrl = UrlA
    /\ last.contentType = "image/jpeg"
    /\ last.buffer # <<>>

\* C7: a /api/image request whose url is missing, cannot be decoded or is not
\* a well-formed absolute http(s) URL is answered 400, issues no upstream
\* fetch and leaves the image cache unchanged.
C7_InvalidUrl ==
    [][/\ \A r \in inflight' :
              r.route = "image" =>
                  (/\ r.url.kind = "string"
                   /\ Decodable(r.url.text)
                   /\ Fetchable(DecodeURIComponent(r.url.text)))
       /\ (/\ last'.route = "image"
           /\ \/ last'.url.kind = "absent"
              \/ ~Decodable(last'.url.text)
              \/ ~Fetchable(DecodeURIComponent(last'.url.text)))
             => /\ last'.status = 400
                /\ last'.netCalls = 0
                /\ imageCache' = imageCache]_vars

\* C8: when the upstream fetch of the image proxy returns a non-success
\* status, the proxy answers with that status and leaves the image cache
\* unchanged; every entry of the image cache comes from a successful upstream
\* response for its own key.
C8_UpstreamFailure ==
    [][/\ (/\ last'.route = "image"
           /\ last'.upstream.kind = "response"
           /\ ~(last'.upstream.status >= 200 /\ last'.upstream.status <= 299))
             => /\ last'.status = last'.upstream.status
                /\ ~last'.hit
                /\ last'.buffer = <<>>
                /\ imageCache' = imageCache
       /\ \A url \in DOMAIN imageCache' :
              LET from == imageCache'[url].buffer[1]
              IN  /\ from.from = url
                  /\ from.status >= 200 /\ from.status <= 299]_vars

\* a request that found a stale entry for its url and whose upstream fetch
\* returned 404 was answered 404, the stale entry still in place
C8_Witness ==
    /\ last.route = "image"
    /\ last.upstream.kind = "response"
    /\ last.upstream.status = 404
    /\ last.status = 404
    /\ last.seenImage.exists
    /\ last.lookupTime - last.seenImage.time >= IMAGE_CACHE_TTL
    /\ last.imageUrl \in DOMAIN imageCache
    /\ imageCache[last.imageUrl].timestamp = last.seenImage.time

\* C11: a /api/search/:site request whose site is not one of the six known
\* source ids is answered 400 with the list of valid sites, and nothing is
\* invoked on its behalf.
C11_InvalidSite ==
    /\ \A r \in inflight : r.route = "searchSite" => r.site \in KnownSites
    /\ (/\ last.route = "searchSite"
        /\ ~(last.q.kind = "absent" \/ last.q.text = <<>>)
        /\ last.site \notin KnownSites)
          => /\ last.status = 400
             /\ last.body = "Invalid site"
             /\ last.tasks = <<>>

(***************************************************************************)
(* Outbound calls whose upstream never answers.  safeFetch arms a timer   *)
(* that aborts its call; a call made with fetch directly has none.        *)
(***************************************************************************)
\* whether the first outbound call of the adapter goes through safeFetch
FirstCallTimed(route, site, key) ==
    ~(site = "thingiverse" /\ key)

\* the upstream of the first outbound call of a pending invocation stays
\* silent: the invocation waits on it
UpstreamSilent(r, i) ==
    /\ r \in inflight
    /\ r.route \in {"search", "popular"}
    /\ i \in 1..Len(r.tasks)
    /\ r.tasks[i].state = "pending"
    /\ CallsMade(r.route, r.tasks[i].site, apiKey,
                 Outcome("neterr", <<>>), Outcome("neterr", <<>>)) >= 1
    /\ inflight' = (inflight \ {r}) \cup
                   {[r EXCEPT !.tasks[i].state = "waiting",
                              !.tasks[i].since = now]}
    /\ last' = NoResponse
    /\ UNCHANGED <<now, apiKey, lastCall, alive, popularCache, imageCache, started,
                   popularStored, firstAnswered, imageStored, imageSeen>>

\* setTimeout(() => controller.abort(), 20000) fires: the call rejects and
\* the adapter goes on as after a network error
AbortFires(r, i) ==
    /\ r \in inflight
    /\ i \in 1..Len(r.tasks)
    /\ r.tasks[i].state = "waiting"
    /\ FirstCallTimed(r.route, r.tasks[i].site, apiKey)
    /\ now - r.tasks[i].since >= ABORT_MS
    /\ \E o2 \in SecondOutcomes(r.route, r.tasks[i].site, apiKey,
                                Outcome("neterr", <<>>)) :
          LET result == AdapterCall(r.route, r.tasks[i], apiKey,
                                    Outcome("neterr", <<>>), o2)
              done == [r.tasks[i] EXCEPT
                          !.state = "done",
                          !.result = Wrapped(result),
                          !.threw = result.threw,
                          !.failed = AllCallsFailed(r.route, r.tasks[i].site, apiKey,
                                                    Outcome("neterr", <<>>), o2)]
          IN  inflight' = (inflight \ {r}) \cup {[r EXCEPT !.tasks[i] = done]}
    /\ last' = NoResponse
    /\ UNCHANGED <<now, apiKey, lastCall, alive, popularCache, imageCache, started,
                   popularStored, firstAnswered, imageStored, imageSeen>>

\* the upstream of the image proxy's fetch stays silent
ImageUpstreamSilent(r) ==
    /\ r \in inflight
    /\ r.route = "image"
    /\ ~r.waiting
    /\ inflight' = (inflight \ {r}) \cup
                   {[r EXCEPT !.waiting = TRUE, !.since = now]}
    /\ last' = NoResponse
    /\ UNCHANGED <<now, apiKey, lastCall, alive, popularCache, imageCache, started,
                   popularStored, firstAnswered, imageStored, imageSeen>>

\* time passes, but not beyond the moment an armed timer is due
TickTimers(d, horizon) ==
    /\ \A r \in inflight : \A i \in 1..Len(r.tasks) :
          (r.tasks[i].state = "waiting"
             /\ FirstCallTimed(r.route, r.tasks[i].site, apiKey))
              => now + d <= r.tasks[i].since + ABORT_MS
    /\ Tick(d, horizon)

CallRequests ==
    {Request("search", Str(<<"benchy">>), "", sites, Absent, Absent, Absent) :
        sites \in {Str(<<"thingiverse">>), Str(<<"thangs">>)}}
    \cup {Request("popular", Absent, "", sites, Absent, Absent, Absent) :
        sites \in {Str(<<"thingiverse">>), Arr(<<"thangs", "thangs">>)}}
    \cup {Request("image", Absent, "", Absent, Absent, Absent, Str(UrlB))}

CallSteps == {10 * 1000}

NextCalls ==
    \/ \E req \in CallRequests :
          \/ req.route = "search" /\ ReceiveSearch(req, 1)
          \/ req.route = "popular" /\ ReceivePopular(req, 1)
          \/ req.route = "image" /\ ReceiveImage(req, 1)
    \/ \E r \in inflight : \E i \in 1..Len(r.tasks) : AdapterReturns(r, i, FALSE)
    \/ \E r \in inflight : \E i \in 1..Len(r.tasks) : UpstreamSilent(r, i)
    \/ \E r \in inflight : \E i \in 1..Len(r.tasks) : AbortFires(r, i)
    \/ \E r \in inflight : RespondSearch(r)
    \/ \E r \in inflight : StorePopular(r)
    \/ \E r \in inflight : \E up \in UpstreamResponses(r.imageUrl) :
          ImageFetchReturns(r, up)
    \/ \E r \in inflight : ImageUpstreamSilent(r)
    \/ \E d \in CallSteps : TickTimers(d, CallHorizon)

\* every route that calls out, one request at a time, upstreams that may
\* stay silent, and the clock
SpecCalls == Init /\ [][NextCalls]_vars

\* C12: every outbound call made while a request is served is aborted 20
\* seconds after it starts if the upstream has not answered: no call is
\* still waiting for its upstream later than that.
C12_AbortedAfter20s ==
    \A r \in inflight :
        /\ \A i \in 1..Len(r.tasks) :
              r.tasks[i].state = "waiting" => now - r.tasks[i].since <= ABORT_MS
        /\ r.waiting => now - r.since <= ABORT_MS


\* C13: whatever the shape of the query parameters (absent, a string, or an
\* array when a parameter is repeated), an exception raised while a search or
\* popular request is handled ends in the handler's own 500 payload: the
\* request is answered exactly once and the process keeps running.
C13_ExceptionsCaught ==
    /\ alive
    /\ last.route \in {"search", "searchSite", "popular"}
          => /\ last.status \in {200, 400, 500}
             /\ last.status = 500 => last.body = "Search failed"


\* C14: every adapter operation of the six sources completes by returning a
\* sequence and never raises: a completed invocation did not throw and holds
\* a sequence, the empty one when its outbound calls all failed and it has no
\* static list to fall back on; and an invocation whose upstream stays silent
\* is completed by the abort of its call, 20 s after the call was made.
C14_AlwaysReturnsSequence ==
    \A r \in inflight : \A i \in 1..Len(r.tasks) :
        LET t == r.tasks[i]
        IN  t.site \in KnownSites =>
              /\ t.state = "done" =>
                    /\ ~t.threw
                    /\ t.result.kind = "array"
                    /\ (t.failed /\ ~(r.route = "popular" /\ t.site = "thingiverse"))
                          => t.result.items = <<>>
              /\ t.state = "waiting" => now - t.since <= ABORT_MS


\* C15: with an effective limit L in 1..20, no adapter operation of the six
\* sources returns more than L records, however many the upstream sent.
C15_AtMostLimit ==
    \A r \in inflight \cup {last} : \A i \in 1..Len(r.tasks) :
        LET t == r.tasks[i]
        IN  (/\ t.site \in KnownSites
             /\ t.state = "done"
             /\ t.limit \in 1..MAX_LIMIT)
                => Len(t.result.items) <= t.limit


\* C16: the response to a /api/search or /api/popular request is sent only
\* when every adapter invocation of the request has completed, and all the
\* invocations of a request are started together, before any is awaited: a
\* suspended request holds one started invocation for every selected source.
C16_AfterAllCompleted ==
    /\ last.route \in {"search", "popular"} =>
          \A i \in 1..Len(last.tasks) : last.tasks[i].state = "done"
    /\ \A r \in inflight :
          r.route \in {"search", "popular"} =>
              /\ Len(r.tasks) = Len(FilterSites(r.enabledSites))
              /\ \A i \in 1..Len(r.tasks) :
                    r.tasks[i].site = FilterSites(r.enabledSites)[i]

\* a search over two sources was answered, after both invocations completed
C16_Witness ==
    /\ last.route = "search"
    /\ last.status = 200
    /\ Len(last.tasks) >= 2
    /\ \A i \in 1..Len(last.tasks) : last.tasks[i].state = "done"


\* C17: within one /api/search or /api/popular request every source adapter
\* is invoked at most once, whatever the sites list holds: no two invocations
\* of a request are for the same site id.
C17_OncePerSource ==
    \A r \in inflight \cup {last} :
        r.route \in {"search", "popular"} =>
            \A i, j \in 1..Len(r.tasks) :
                r.tasks[i].site = r.tasks[j].site => i = j


(***************************************************************************)
(* Adapters with a primary and a secondary acquisition strategy.           *)
(***************************************************************************)
\* the adapters that call a structured endpoint first and have a second
\* source to turn to
TwoStrategies(route, site, key) ==
    \/ route = "search" /\ site \in {"thangs", "myminifactory"}
    \/ route = "search" /\ site = "thingiverse" /\ key
    \/ route = "popular" /\ site = "printables"

\* the primary strategy produced one or more records
PrimaryProduced(o) == o.kind = "json" /\ o.items # <<>>

StrategyRequests ==
    {Request("search", Str(<<"benchy">>), "", Str(<<site>>), Str(<<"1">>),
             Absent, Absent) : site \in {"thangs", "thingiverse", "myminifactory"}}
    \cup {Request("popular", Absent, "", Str(<<"printables">>), Str(<<"1">>),
                  Absent, Absent)}

NextStrategies ==
    \/ \E req \in StrategyRequests :
          \/ req.route = "search" /\ ReceiveSearch(req, 1)
          \/ req.route = "popular" /\ ReceivePopular(req, 1)
    \/ \E r \in inflight : \E i \in 1..Len(r.tasks) : AdapterReturns(r, i, TRUE)
    \/ \E r \in inflight : RespondSearch(r)
    \/ \E r \in inflight : StorePopular(r)

SpecStrategies == Init /\ [][NextStrategies]_vars

\* C18: an adapter with a primary and a secondary strategy attempts the
\* secondary exactly when the primary failed or produced zero records, never
\* when the primary produced one or more records, and returns the empty
\* sequence when every strategy failed.
C18_SecondaryExactlyOnMiss ==
    TwoStrategies(lastCall.route, lastCall.site, lastCall.key) =>
        /\ lastCall.calls = 2 <=> ~PrimaryProduced(lastCall.first)
        /\ (CallFailed(lastCall.first)
              /\ (lastCall.calls = 2 => CallFailed(lastCall.second)))
                => lastCall.records = <<>>


(***************************************************************************)
(* The keys of the popular cache.                                          *)
(***************************************************************************)
KeyRequests ==
    {Request("popular", Absent, "", Str(sites), Absent, Absent, Absent) :
        sites \in {<<"thangs", "myminifactory">>, <<"myminifactory", "thangs">>}}
    \cup {Request("popular", Absent, "", Str(<<"thingiverse">>), limit,
                  Absent, Absent) : limit \in {Str(<<"5">>), Str(<<"-", "5">>)}}
    \cup {Request("popular", Absent, "", Str(<<"thingiverse-">>), Str(<<"5">>),
                  Absent, Absent)}

NextKeys ==
    \/ \E req \in KeyRequests : ReceivePopular(req, 1)
    \/ \E r \in inflight : \E i \in 1..Len(r.tasks) : AdapterReturns(r, i, FALSE)
    \/ \E r \in inflight : StorePopular(r)
    \/ \E d \in PopularSteps : Tick(d, PopularHorizon)

\* /api/popular, one request at a time, over lists and limits whose keys meet
SpecKeys == Init /\ [][NextKeys]_vars

\* C19: two /api/popular requests use the same cache entry if and only if
\* their site lists are equal up to order and their effective limits are
\* equal: an entry read by a request was stored by a request with the same
\* sorted list and limit, and an entry stored by a request with the same
\* sorted list and limit lies under the key of this request.
C19_SameEntryIffSameCombination ==
    last.route = "popular" =>
        LET comb == <<last.enabledSites, last.searchLimit>>
        IN  /\ last.hit => last.seen.by = comb
            /\ \A k \in DOMAIN popularStored :
                  popularStored[k].by = comb => k = last.cacheKey


RouteRequests ==
    {Request("search", Str(<<"benchy">>), "", Str(<<"thangs">>), Absent,
             Absent, Absent),
     Request("searchSite", Str(<<"benchy">>), "thangs", Absent, Absent,
             Absent, Absent),
     Request("searchUrls", Str(<<"benchy">>), "", Absent, Absent, Absent,
             Absent),
     Request("health", Absent, "", Absent, Absent, Absent, Absent),
     Request("popular", Absent, "", Str(<<"thingiverse">>), Absent, Absent,
             Absent),
     Request("image", Absent, "", Absent, Absent, Absent, Str(UrlB))}

NextRoutes ==
    \/ \E req \in RouteRequests :
          \/ req.route = "search" /\ ReceiveSearch(req, 1)
          \/ req.route = "searchSite" /\ ReceiveSearchSite(req, 1)
          \/ req.route = "searchUrls" /\ ReceiveSearchUrls(req, 1)
          \/ req.route = "health" /\ ReceiveHealth(req, 1)
          \/ req.route = "popular" /\ ReceivePopular(req, 1)
          \/ req.route = "image" /\ ReceiveImage(req, 1)
    \/ \E r \in inflight : \E i \in 1..Len(r.tasks) : AdapterReturns(r, i, FALSE)
    \/ \E r \in inflight : RespondSearch(r)
    \/ \E r \in inflight : RespondSearchSite(r)
    \/ \E r \in inflight : StorePopular(r)
    \/ \E r \in inflight : \E up \in UpstreamResponses(r.imageUrl) :
          ImageFetchReturns(r, up)
    \/ \E d \in PopularSteps : Tick(d, PopularHorizon)

SpecRoutes == Init /\ [][NextRoutes]_vars

\* C21: a request answered from a cache (a /api/popular hit within the
\* popular lifetime, a /api/image hit within the image lifetime) is answered
\* at once with the stored value: no adapter is invoked for it, it makes no
\* outbound call, and both caches keep their entries and timestamps.
C21_HitLeavesCaches ==
    [][last'.hit =>
          /\ last'.route \in {"popular", "image"}
          /\ last'.route = "popular" =>
                /\ now - popularCache.timestamp < POPULAR_TTL
                /\ last'.mapping = popularCache.data[last'.cacheKey]
          /\ last'.route = "image" =>
                /\ now - imageCache[last'.imageUrl].timestamp < IMAGE_CACHE_TTL
                /\ last'.buffer = imageCache[last'.imageUrl].buffer
          /\ last'.status = 200
          /\ last'.tasks = <<>>
          /\ last'.netCalls = 0
          /\ inflight' = inflight
          /\ popularCache' = popularCache
          /\ imageCache' = imageCache]_vars

\* a popular request was answered from the cache three minutes after the
\* entry was stored, while the image cache held an entry too
C21_Witness ==
    /\ last.route = "popular"
    /\ last.hit
    /\ last.lookupTime - last.seen.time = 3 * MS_PER_MINUTE
    /\ DOMAIN imageCache # {}


(***************************************************************************)
(* The image cache when it is full: IMAGE_CACHE_MAX earlier requests have  *)
(* left an entry each, the first half of them a quarter of an hour before  *)
(* the second half.                                                        *)
(***************************************************************************)
Filler(k) == <<"http", ":", "/", "/", "example.com", "/", ToString(k)>>

Fillers == {Filler(k) : k \in 1..IMAGE_CACHE_MAX}

FillerTime(url) ==
    IF \E k \in 1..(IMAGE_CACHE_MAX \div 2) : url = Filler(k) THEN 0
    ELSE 15 * MS_PER_MINUTE

FillerBody(url) == <<[from |-> url, status |-> 200, ver |-> 1]>>

InitSweep ==
    /\ now = 15 * MS_PER_MINUTE
    /\ apiKey = FALSE
    /\ alive = TRUE
    /\ lastCall = NoCall
    /\ popularCache = [data |-> Empty, timestamp |-> 0]
    /\ imageCache = [u \in Fillers |->
                        [buffer |-> FillerBody(u), contentType |-> "image/png",
                         timestamp |-> FillerTime(u)]]
    /\ inflight = {}
    /\ started = 0
    /\ last = NoResponse
    /\ popularStored = Empty
    /\ firstAnswered = Empty
    /\ imageStored = [u \in Fillers |->
                         [exists |-> TRUE, time |-> FillerTime(u),
                          contentType |-> "image/png", buffer |-> FillerBody(u),
                          count |-> 1]]
    /\ imageSeen = Empty

SweepRequests ==
    {Request("image", Absent, "", Absent, Absent, Absent, Str(url)) :
        url \in {UrlB, Filler(1), Filler(IMAGE_CACHE_MAX)}}

NextSweep ==
    \/ \E req \in SweepRequests : ReceiveImage(req, 1)
    \/ \E r \in inflight : \E up \in UpstreamResponses(r.imageUrl) :
          ImageFetchReturns(r, up)
    \/ \E d \in ImageSteps : Tick(d, SweepHorizon)

SpecSweep == InitSweep /\ [][NextSweep]_vars


\* C22: an image cache entry is served exactly when its own age is below 30
\* minutes.  A request is answered from the cache if and only if the latest
\* store for its url is less than 30 minutes before its lookup; a request
\* that finds that store 30 minutes old or older, or none, goes upstream;
\* what was stored or evicted for other urls plays no part.
C22_ServedIffOwnAge ==
    /\ last.route = "image" =>
          /\ last.hit <=>
                /\ last.seenImage.exists
                /\ last.lookupTime - last.seenImage.time < IMAGE_CACHE_TTL
          /\ (/\ last.seenImage.exists
              /\ last.lookupTime - last.seenImage.time >= IMAGE_CACHE_TTL)
                => last.netCalls = 1
    /\ \A r \in inflight :
          r.route = "image" =>
              ~(/\ r.seenImage.exists
                /\ r.lookupTime - r.seenImage.time < IMAGE_CACHE_TTL)

\* an entry aged exactly 30 minutes was not served but fetched anew, after
\* the sweep had evicted entries of other urls
C22_Witness ==
    /\ last.route = "image"
    /\ last.imageUrl = Filler(IMAGE_CACHE_MAX)
    /\ last.seenImage.exists
    /\ last.lookupTime - last.seenImage.time = IMAGE_CACHE_TTL
    /\ ~last.hit
    /\ last.netCalls = 1
    /\ Filler(1) \notin DOMAIN imageCache


\* C23: only a successful image miss changes the image cache.  It stores its
\* entry; if the cache then holds more than 100 entries, every entry older
\* than 30 minutes is removed and every other entry, the new one included,
\* is kept; if it holds 100 entries or fewer, nothing is removed.  No other
\* step removes or changes an entry.
C23_SweepAfterStore ==
    [][IF last'.route = "image" /\ last'.status = 200 /\ ~last'.hit
       THEN LET url == last'.imageUrl
                stored == (url :> [buffer |-> last'.buffer,
                                   contentType |-> last'.contentType,
                                   timestamp |-> now]) @@ imageCache
                kept == IF Cardinality(DOMAIN stored) > IMAGE_CACHE_MAX
                        THEN {u \in DOMAIN stored :
                                now - stored[u].timestamp <= IMAGE_CACHE_TTL}
                        ELSE DOMAIN stored
            IN  /\ DOMAIN imageCache' = kept
                /\ url \in kept
                /\ \A u \in kept : imageCache'[u] = stored[u]
       ELSE imageCache' = imageCache]_vars

\* a store into the full cache: the entries older than 30 minutes are gone,
\* those aged exactly 30 minutes and the new one are kept
C23_Witness ==
    /\ last.route = "image"
    /\ last.status = 200
    /\ ~last.hit
    /\ last.time = 45 * MS_PER_MINUTE
    /\ last.imageUrl \in DOMAIN imageCache
    /\ Filler(1) \notin DOMAIN imageCache
    /\ Filler(IMAGE_CACHE_MAX) \in DOMAIN imageCache
    /\ last.time - imageCache[Filler(IMAGE_CACHE_MAX)].timestamp = IMAGE_CACHE_TTL


(***************************************************************************)
(* The Referer of the image proxy.                                         *)
(***************************************************************************)
\* urls whose host is a mapped domain, and urls that name a mapped domain
\* in their path only
RefererRequests ==
    {Request("image", Absent, "", Absent, Absent, Absent, Str(url)) :
        url \in {UrlAEncoded, UrlB,
                 <<"https", ":", "/", "/", "thangs.com", "/", "a.jpg">>,
                 <<"https", ":", "/", "/", "pic.creality.com", "/", "a.jpg">>,
                 <<"https", ":", "/", "/", "example.com", "/", "thangs.com">>}}

NextReferer ==
    \/ \E req \in RefererRequests : ReceiveImage(req, 1)
    \/ \E r \in inflight : \E up \in UpstreamResponses(r.imageUrl) :
          ImageFetchReturns(r, up)

SpecReferer == Init /\ [][NextReferer]_vars

\* the referer that goes with a host
HostReferer(host) ==
    CASE host \in {"thingiverse.com", "cdn.thingiverse.com"} ->
            "https://www.thingiverse.com/"
      [] host = "thangs.com" -> "https://thangs.com/"
      [] host = "myminifactory.com" -> "https://www.myminifactory.com/"
      [] host \in {"creality.com", "pic.creality.com"} ->
            "https://www.crealitycloud.com/"
      [] OTHER -> ""

\* C24: on an image miss the Referer sent upstream depends on the host of
\* the target url alone: the referer of the mapped domain the host belongs
\* to, and the empty referer for every other host, whatever the path holds.
C24_RefererByHost ==
    \A r \in inflight :
        r.route = "image" => r.referer = HostReferer(r.imageUrl[5])


\* C25: handling /api/search, /api/search/:site, /api/search-urls or
\* /api/health leaves both caches as they are, and every valid search request
\* has its adapters invoked anew; the popular cache and its timestamp change
\* only when a /api/popular request stores, and the image cache changes only
\* when a /api/image request stores.
C25_RoutesKeepToTheirCache ==
    [][/\ popularCache' # popularCache =>
              /\ last'.route = "popular"
              /\ last'.status = 200
              /\ ~last'.hit
       /\ imageCache' # imageCache =>
              /\ last'.route = "image"
              /\ last'.status = 200
              /\ ~last'.hit
       /\ (last'.route \in {"search", "searchSite"} /\ last'.status = 200) =>
              /\ ~last'.hit
              /\ last'.route = "search" =>
                    Len(last'.tasks) = Len(FilterSites(last'.enabledSites))
              /\ last'.route = "searchSite" => Len(last'.tasks) = 1
              /\ \A i \in 1..Len(last'.tasks) : last'.tasks[i].state = "done"
              /\ \E r \in inflight : r.id = last'.id /\ r.tasks = last'.tasks]_vars

\* a search was answered after its own adapter calls while both caches held
\* entries, which it left alone
C25_Witness ==
    /\ last.route = "search"
    /\ last.status = 200
    /\ last.tasks # <<>>
    /\ last.tasks[1].state = "done"
    /\ DOMAIN popularCache.data # {}
    /\ DOMAIN imageCache # {}

====
